---- MODULE Spec2Model ----
(***************************************************************************)
(* SimpleVector<Type> (simple_vector.h): a growable array that owns one    *)
(* heap block through std::unique_ptr<Type[]> and tracks size_ and         *)
(* capacity_.  The model keeps an explicit heap of blocks, so that the     *)
(* allocated length of a block is a fact of the heap and not of the        *)
(* vector's own bookkeeping, and two vector objects a and b, so that       *)
(* copies, moves and swaps between objects are steps of the model.         *)
(* ArrayPtr<Type> (array_ptr.h), the owning raw pointer, is modelled over   *)
(* the same heap with two objects p and q and a specification of its own.  *)
(***************************************************************************)
EXTENDS Integers, Sequences, FiniteSets, TLC

\* Total number of element slots the heap can hold in live blocks.
MaxHeap == 3
\* Block identities (addresses): two owners plus one temporary.
MaxBlocks == 3

\* The element type: a two-valued Type whose value-initialised value is 0.
Type == {0, 1}
DefaultValue == 0

Vectors == {"a", "b"}
Null == 0
BlockIds == 1..MaxBlocks

ArrayPtrs == {"p", "q"}

VARIABLES vec, heap, ub, arr
vars == <<vec, heap, ub, arr>>

----------------------------------------------------------------------------
\* Heap blocks.  len is the number of slots the allocation holds; mem holds
\* the slot values, C index i at mem[i+1].  mem is longer than len only after
\* a write past the end of the allocation (undefined behaviour).

FreeBlk == [live |-> FALSE, len |-> 0, mem |-> << >>]

RECURSIVE SumLen(_, _)
SumLen(h, n) == IF n = 0 THEN 0 ELSE h[n].len + SumLen(h, n - 1)

HeapUse(h) == SumLen(h, MaxBlocks)

Mem(h, p) == IF p = Null THEN << >> ELSE h[p].mem
AllocLen(h, p) == IF p = Null THEN 0 ELSE h[p].len

\* Build a slot sequence of n slots from a function of the C index.
MemOf(n, F(_)) == [j \in 1..n |-> F(j - 1)]

\* std::make_unique<Type[]>(n): a fresh block of n value-initialised slots;
\* for n = 0 it is still a (zero-length) allocation, never a null pointer.
NewId(h) == CHOOSE i \in BlockIds : ~h[i].live /\ \A j \in BlockIds : ~h[j].live => i <= j

make_unique(h, n) ==
    LET id == NewId(h)
    IN [heap |-> [h EXCEPT ![id] = [live |-> TRUE, len |-> n,
                                    mem |-> MemOf(n, LAMBDA i : DefaultValue)]],
        ptr |-> id]

\* delete[] of the block a unique_ptr owns (no effect on a null pointer).
Delete(h, p) == IF p = Null THEN h ELSE [h EXCEPT ![p] = FreeBlk]

\* Overwrite the whole slot sequence of a live block.
SetMem(h, p, m) == [h EXCEPT ![p].mem = m]

\* The state of an object moved from by std::move: a trivially copyable Type
\* keeps its value, a resource-owning Type is reset to its empty value.
MovedFrom(x, mv) == IF mv = "reset" THEN DefaultValue ELSE x

----------------------------------------------------------------------------
\* Vector objects.

DeadVec == [alive |-> FALSE, size_ |-> 0, capacity_ |-> 0, items_ |-> Null]

\* size_t size_ = 0; size_t capacity_ = 0; std::unique_ptr<Type[]> items_;
EmptyVec == [alive |-> TRUE, size_ |-> 0, capacity_ |-> 0, items_ |-> Null]

\* The logical sequence: the elements at indices [0, size_).
Elems(S, v) == SubSeq(Mem(S.heap, S.vec[v].items_), 1, S.vec[v].size_)

Cur == [vec |-> vec, heap |-> heap]

\* Outcome of a call: the new state, the exception thrown (if any), the
\* returned position (if any) and whether undefined behaviour was executed.
Res(S, thrown, ret, undef) ==
    [vec |-> S.vec, heap |-> S.heap, thrown |-> thrown, ret |-> ret, ub |-> undef]

Done(S) == Res(S, "none", 0, FALSE)
Throw(S, what) == Res(S, what, 0, FALSE)

\* Where a call fails: nowhere, in make_unique (std::bad_alloc), in the k-th
\* relocation of an old element, or in the k-th store of a new value.
NoFail == [at |-> "none", k |-> 0]
Fails == {NoFail, [at |-> "alloc", k |-> 0]}
           \cup {[at |-> w, k |-> k] : w \in {"move", "store"}, k \in 0..(MaxHeap - 1)}

\* A call argument passed by reference: a value of the caller's, or a
\* reference to the element at index i of the vector the call is made on.
ValArgs == {[kind |-> "val", x |-> x, i |-> 0] : x \in Type}
SelfArgs(n) == {[kind |-> "self", x |-> DefaultValue, i |-> i] : i \in 0..(n - 1)}

\* The value the argument denotes when the call is made.
ArgValue(S, v, item) ==
    IF item.kind = "val" THEN item.x ELSE Mem(S.heap, S.vec[v].items_)[item.i + 1]

----------------------------------------------------------------------------
\* Constructors, destructor and whole-object operations: each maps a state
\* [vec, heap] to the state after the call.

\* SimpleVector() noexcept = default
DefaultCtor(S, v) == [S EXCEPT !.vec[v] = EmptyVec]

\* Construction from a capacity hint that takes the hint for a size.
ReserveCtorSized(S, v, k) ==
    LET m == make_unique(S.heap, k)
    IN [vec |-> [S.vec EXCEPT ![v] = [alive |-> TRUE, size_ |-> k,
                                      capacity_ |-> k, items_ |-> m.ptr]],
        heap |-> m.heap]

\* explicit SimpleVector(ReserveProxyObj reserve)
ReserveCtor(S, v, k) ==
    LET m == make_unique(S.heap, k)
    IN [vec |-> [S.vec EXCEPT ![v] = [alive |-> TRUE, size_ |-> 0,
                                      capacity_ |-> k, items_ |-> m.ptr]],
        heap |-> m.heap]

\* SimpleVector(size_t size, const Type& value)
SizeValueCtor(S, v, size, value) ==
    IF size > 0
    THEN LET m == make_unique(S.heap, size)
         IN [vec |-> [S.vec EXCEPT ![v] = [alive |-> TRUE, size_ |-> size,
                                           capacity_ |-> size, items_ |-> m.ptr]],
             heap |-> SetMem(m.heap, m.ptr, MemOf(size, LAMBDA i : value))]
    ELSE [S EXCEPT !.vec[v] = EmptyVec]

\* explicit SimpleVector(size_t size): std::fill with Type{}
SizeCtor(S, v, size) == SizeValueCtor(S, v, size, DefaultValue)

\* SimpleVector(std::initializer_list<Type> init)
InitListCtor(S, v, init) ==
    LET m == make_unique(S.heap, Len(init))
    IN [vec |-> [S.vec EXCEPT ![v] = [alive |-> TRUE, size_ |-> Len(init),
                                      capacity_ |-> Len(init), items_ |-> m.ptr]],
        heap |-> SetMem(m.heap, m.ptr, init)]

\* SimpleVector(SimpleVector&& other) noexcept
MoveCtor(S, v, other) ==
    [S EXCEPT !.vec[v] = [alive |-> TRUE, size_ |-> S.vec[other].size_,
                          capacity_ |-> S.vec[other].capacity_,
                          items_ |-> S.vec[other].items_],
              !.vec[other] = EmptyVec]

\* Copy construction that allocates only size_ slots and reports that capacity.
CopyCtorShrink(S, v, other) ==
    LET o == S.vec[other]
        src == Mem(S.heap, o.items_)
        m == make_unique(S.heap, o.size_)
    IN [vec |-> [S.vec EXCEPT ![v] = [alive |-> TRUE, size_ |-> o.size_,
                                      capacity_ |-> o.size_, items_ |-> m.ptr]],
        heap |-> SetMem(m.heap, m.ptr, SubSeq(src, 1, o.size_))]

\* SimpleVector(const SimpleVector& other)
CopyCtor(S, v, other) ==
    LET o == S.vec[other]
        src == Mem(S.heap, o.items_)
        m == make_unique(S.heap, o.capacity_)
    IN [vec |-> [S.vec EXCEPT ![v] = [alive |-> TRUE, size_ |-> o.size_,
                                      capacity_ |-> o.capacity_, items_ |-> m.ptr]],
        heap |-> SetMem(m.heap, m.ptr,
                        MemOf(o.capacity_, LAMBDA i : IF i < o.size_ THEN src[i + 1]
                                                                     ELSE DefaultValue))]

\* ~SimpleVector(): the unique_ptr member deletes the block.
Dtor(S, v) ==
    [vec |-> [S.vec EXCEPT ![v] = DeadVec], heap |-> Delete(S.heap, S.vec[v].items_)]

\* void swap(SimpleVector& other) noexcept
swap(S, v, other) ==
    [S EXCEPT !.vec[v] = S.vec[other], !.vec[other] = S.vec[v]]

\* void Clear() noexcept
Clear(S, v) == [S EXCEPT !.vec[v].size_ = 0]

\* PopBack that gives up the vacated slot along with the element.
PopBackShrinks(S, v) ==
    IF S.vec[v].size_ = 0 THEN S
    ELSE [S EXCEPT !.vec[v].size_ = @ - 1, !.vec[v].capacity_ = @ - 1]

\* PopBack without the check for an empty array.
PopBackUnchecked(S, v) == [S EXCEPT !.vec[v].size_ = @ - 1]

\* void PopBack() noexcept
PopBack(S, v) == IF S.vec[v].size_ = 0 THEN S ELSE [S EXCEPT !.vec[v].size_ = @ - 1]

\* Move assignment without the check for self-assignment.
MoveAssignNoSelfCheck(S, v, rhs) ==
    [vec |-> [S.vec EXCEPT ![v] = IF v = rhs THEN EmptyVec ELSE S.vec[rhs],
                           ![rhs] = EmptyVec],
     heap |-> Delete(S.heap, S.vec[v].items_)]

\* SimpleVector& operator=(SimpleVector&& rhs) noexcept
MoveAssign(S, v, rhs) ==
    IF v = rhs THEN S
    ELSE [vec |-> [S.vec EXCEPT ![v] = S.vec[rhs], ![rhs] = EmptyVec],
          heap |-> Delete(S.heap, S.vec[v].items_)]

\* Copy assignment whose std::copy stops one element short.
CopyAssignShort(S, v, rhs) ==
    IF v = rhs THEN S
    ELSE IF S.vec[rhs].size_ = 0 THEN [S EXCEPT !.vec[v].size_ = 0]
    ELSE LET r == S.vec[rhs]
             src == Mem(S.heap, r.items_)
             m == make_unique(S.heap, r.size_)
             arr_ptr == [alive |-> TRUE, size_ |-> r.size_,
                         capacity_ |-> r.capacity_, items_ |-> m.ptr]
         IN [vec |-> [S.vec EXCEPT ![v] = arr_ptr],
             heap |-> Delete(SetMem(m.heap, m.ptr,
                                    MemOf(r.size_, LAMBDA i : IF i < r.size_ - 1
                                                              THEN src[i + 1]
                                                              ELSE DefaultValue)),
                             S.vec[v].items_)]

\* SimpleVector& operator=(const SimpleVector& rhs): a temporary arr_ptr of
\* rhs.size_ slots receives the elements, has its capacity_ overwritten with
\* rhs.capacity_ and is swapped in; the temporary's destructor then deletes
\* the block the vector owned before.
CopyAssign(S, v, rhs) ==
    IF v = rhs THEN S
    ELSE IF S.vec[rhs].size_ = 0 THEN Clear(S, v)
    ELSE LET r == S.vec[rhs]
             src == Mem(S.heap, r.items_)
             m == make_unique(S.heap, r.size_)
             arr_ptr == [alive |-> TRUE, size_ |-> r.size_,
                         capacity_ |-> r.capacity_, items_ |-> m.ptr]
         IN [vec |-> [S.vec EXCEPT ![v] = arr_ptr],
             heap |-> Delete(SetMem(m.heap, m.ptr, SubSeq(src, 1, r.size_)),
                             S.vec[v].items_)]

----------------------------------------------------------------------------
\* Operations that can throw: each maps a state and the call's inputs to an
\* outcome Res.  fail names the point at which an allocation or an element
\* assignment throws, mv is what a move leaves in its source, and g is the
\* value found in a slot that a step with undefined behaviour wrote or read
\* (past the end of the block, or through a dangling reference).

\* The old block after the relocations of slots [0, c) by std::move.
MovedPrefix(old, c, mv) ==
    MemOf(Len(old), LAMBDA i : IF i < c THEN MovedFrom(old[i + 1], mv) ELSE old[i + 1])

\* The old block after a relocation by std::copy (untouched) or std::move.
Relocated(old, c, ovl, mv) == IF ovl = "move" THEN MovedPrefix(old, c, mv) ELSE old

\* capacity_ ? capacity_ * 2 : 1
Grown(capacity) == IF capacity # 0 THEN capacity * 2 ELSE 1

\* Reserve that also reallocates when the capacity asked for is the one held.
ReserveOnEqual(S, v, new_capacity, fail, mv) ==
    LET x == S.vec[v]
        old == Mem(S.heap, x.items_)
    IN IF new_capacity < x.capacity_ THEN Done(S)
       ELSE LET m == make_unique(S.heap, new_capacity)
                new_items == MemOf(new_capacity,
                                   LAMBDA i : IF i < x.size_ THEN old[i + 1]
                                                             ELSE DefaultValue)
            IN Done([vec |-> [S.vec EXCEPT ![v].items_ = m.ptr,
                                           ![v].capacity_ = new_capacity],
                     heap |-> Delete(SetMem(m.heap, m.ptr, new_items), x.items_)])

\* void Reserve(size_t new_capacity)
Reserve(S, v, new_capacity, fail, mv) ==
    LET x == S.vec[v]
        old == Mem(S.heap, x.items_)
    IN IF new_capacity <= x.capacity_ THEN Done(S)
       ELSE IF fail.at = "alloc" THEN Throw(S, "bad_alloc")
       ELSE IF fail.at = "move" /\ fail.k < x.size_
            THEN Throw([S EXCEPT !.heap = SetMem(S.heap, x.items_,
                                                 MovedPrefix(old, fail.k, mv))], "elem")
       ELSE LET m == make_unique(S.heap, new_capacity)
                new_items == MemOf(new_capacity,
                                   LAMBDA i : IF i < x.size_ THEN old[i + 1]
                                                             ELSE DefaultValue)
            IN Done([vec |-> [S.vec EXCEPT ![v].items_ = m.ptr,
                                           ![v].capacity_ = new_capacity],
                     heap |-> Delete(SetMem(m.heap, m.ptr, new_items), x.items_)])

\* void PushBack(const Type& item) (ovl = "copy") and void PushBack(Type&& item)
\* (ovl = "move").  On the growing path the old block is deleted before item
\* is read: an item that refers into the vector is then a dangling reference.
PushBack(S, v, item, ovl, fail, mv, g) ==
    LET x == S.vec[v]
        old == Mem(S.heap, x.items_)
        n == x.size_
    IN IF n = x.capacity_
       THEN IF fail.at = "alloc" THEN Throw(S, "bad_alloc")
            ELSE IF fail.at = "move" /\ fail.k < n
                 THEN Throw([S EXCEPT !.heap = SetMem(S.heap, x.items_,
                                                      Relocated(old, fail.k, ovl, mv))],
                            "elem")
            ELSE LET new_capacity == Grown(x.capacity_)
                     m == make_unique(S.heap, new_capacity)
                     dangling == item.kind = "self"
                     stored == IF dangling THEN g ELSE item.x
                     failed == fail.at = "store" /\ fail.k = 0
                     new_items == MemOf(new_capacity,
                                        LAMBDA i : IF i < n THEN old[i + 1]
                                                   ELSE IF i = n /\ ~failed THEN stored
                                                   ELSE DefaultValue)
                     T == [vec |-> [S.vec EXCEPT ![v].items_ = m.ptr,
                                                 ![v].capacity_ = new_capacity,
                                                 ![v].size_ = IF failed THEN n ELSE n + 1],
                           heap |-> Delete(SetMem(m.heap, m.ptr, new_items), x.items_)]
                 IN IF failed THEN Throw(T, "elem") ELSE Res(T, "none", 0, dangling)
       ELSE IF fail.at = "store" /\ fail.k = 0 THEN Throw(S, "elem")
            ELSE LET past == n >= AllocLen(S.heap, x.items_)
                     stored == IF past THEN g ELSE ArgValue(S, v, item)
                     new_mem == MemOf(IF n < Len(old) THEN Len(old) ELSE n + 1,
                                      LAMBDA i : IF i = n THEN stored ELSE old[i + 1])
                 IN Res([vec |-> [S.vec EXCEPT ![v].size_ = n + 1],
                         heap |-> SetMem(S.heap, x.items_, new_mem)], "none", 0, past)

\* Erase that drops the last element instead of the one at pos.
EraseNoShift(S, v, pos, mv) ==
    IF pos < 0 \/ pos >= S.vec[v].size_ THEN Throw(S, "out_of_range")
    ELSE Res([S EXCEPT !.vec[v].size_ = @ - 1], "none", pos, FALSE)

\* Iterator Erase(ConstIterator pos), pos given as the offset pos - begin().
Erase(S, v, pos, mv) ==
    LET x == S.vec[v]
        old == Mem(S.heap, x.items_)
        n == x.size_
    IN IF pos < 0 \/ pos >= n THEN Throw(S, "out_of_range")
       ELSE LET index == pos
                new_mem == MemOf(Len(old),
                                 LAMBDA i : IF i >= index /\ i < n - 1 THEN old[i + 2]
                                            ELSE IF i = n - 1 /\ index < n - 1
                                                 THEN MovedFrom(old[i + 1], mv)
                                            ELSE old[i + 1])
            IN Res([vec |-> [S.vec EXCEPT ![v].size_ = n - 1],
                    heap |-> SetMem(S.heap, x.items_, new_mem)], "none", index, FALSE)

\* At with the bound check off by one.
AtOffByOne(S, v, index) ==
    IF index > S.vec[v].size_ THEN Throw(S, "out_of_range")
    ELSE Res(S, "none", index, FALSE)

\* Type& At(size_t index): the returned reference is given as its index.
At(S, v, index) ==
    IF index >= S.vec[v].size_ THEN Throw(S, "out_of_range")
    ELSE Res(S, "none", index, FALSE)

\* Iterator Insert(ConstIterator pos, const Type& value) (ovl = "copy") and
\* Iterator Insert(ConstIterator pos, Type&& value) (ovl = "move"), pos given
\* as the offset pos - begin().
\* Growing path: the new block is filled (slots [0, index), then the value,
\* then slots [index, size_)) before it replaces the old one.
\* Other path: slots size_ down to index + 1 are assigned from their left
\* neighbour, then slot index is assigned from value, which by then reads
\* whatever the referenced slot holds.
Insert(S, v, pos, value, ovl, fail, mv, g) ==
    LET x == S.vec[v]
        old == Mem(S.heap, x.items_)
        n == x.size_
        index == pos
    IN IF pos < 0 \/ pos > n THEN Throw(S, "out_of_range")
       ELSE IF n = x.capacity_
       THEN IF fail.at = "alloc" THEN Throw(S, "bad_alloc")
            ELSE IF (fail.at = "move" /\ fail.k < n) \/ (fail.at = "store" /\ fail.k = 0)
                 THEN LET c == IF fail.at = "move" THEN fail.k ELSE index
                      IN Throw([S EXCEPT !.heap =
                                    IF x.items_ = Null THEN S.heap
                                    ELSE SetMem(S.heap, x.items_,
                                                Relocated(old, c, ovl, mv))], "elem")
            ELSE LET new_capacity == Grown(x.capacity_)
                     m == make_unique(S.heap, new_capacity)
                     new_items == MemOf(new_capacity,
                                        LAMBDA i : IF i < index THEN old[i + 1]
                                                   ELSE IF i = index THEN ArgValue(S, v, value)
                                                   ELSE IF i <= n THEN old[i]
                                                   ELSE DefaultValue)
                 IN Res([vec |-> [S.vec EXCEPT ![v].items_ = m.ptr,
                                               ![v].capacity_ = new_capacity,
                                               ![v].size_ = n + 1],
                         heap |-> Delete(SetMem(m.heap, m.ptr, new_items), x.items_)],
                        "none", index, FALSE)
       ELSE LET shifts == n - index
                failed == (fail.at = "move" /\ fail.k < shifts)
                             \/ (fail.at = "store" /\ fail.k = 0)
                \* the number of shifts performed
                d == IF fail.at = "move" /\ fail.k < shifts THEN fail.k ELSE shifts
                \* slot size_ is written, and lies past the end of the block
                past == n >= AllocLen(S.heap, x.items_) /\ (d > 0 \/ ~failed)
                \* the slots after d shifts
                shifted == MemOf(IF past THEN n + 1 ELSE Len(old),
                                 LAMBDA i : IF i = n /\ past THEN g
                                            ELSE IF i > n - d /\ i <= n THEN old[i]
                                            ELSE IF i = n - d /\ d > 0
                                                 THEN MovedFrom(old[i + 1], mv)
                                            ELSE old[i + 1])
                stored == IF value.kind = "val" THEN value.x ELSE shifted[value.i + 1]
                new_mem == IF index = n /\ past THEN shifted
                           ELSE [shifted EXCEPT ![index + 1] = stored]
            IN IF failed
               THEN Res([S EXCEPT !.heap = SetMem(S.heap, x.items_, shifted)],
                        "elem", 0, past)
               ELSE Res([vec |-> [S.vec EXCEPT ![v].size_ = n + 1],
                         heap |-> SetMem(S.heap, x.items_, new_mem)],
                        "none", index, past)

\* void Resize(size_t new_size)
Resize(S, v, new_size, fail, mv, g) ==
    LET x == S.vec[v]
    IN IF new_size < x.size_ THEN Done([S EXCEPT !.vec[v].size_ = new_size])
       ELSE IF new_size > x.size_
       THEN LET r == IF new_size > x.capacity_ THEN Reserve(S, v, new_size, fail, mv)
                     ELSE Done(S)
            IN IF r.thrown # "none" THEN r
               ELSE LET y == r.vec[v]
                        cur == Mem(r.heap, y.items_)
                        alloc == AllocLen(r.heap, y.items_)
                        count == new_size - y.size_
                        failed == fail.at = "store" /\ fail.k < count
                        d == IF failed THEN fail.k ELSE count
                        past == y.size_ + d > alloc
                        new_mem == MemOf(IF y.size_ + d > Len(cur) THEN y.size_ + d
                                         ELSE Len(cur),
                                         LAMBDA i : IF i >= y.size_ /\ i < y.size_ + d
                                                    THEN (IF i >= alloc THEN g
                                                          ELSE DefaultValue)
                                                    ELSE cur[i + 1])
                        T == [vec |-> [r.vec EXCEPT ![v].size_ =
                                           IF failed THEN y.size_ ELSE new_size],
                              heap |-> SetMem(r.heap, y.items_, new_mem)]
                    IN Res(T, IF failed THEN "elem" ELSE "none", 0, past)
       ELSE Done(S)

----------------------------------------------------------------------------
\* Comparison operators: free functions that read the two arrays through
\* cbegin() and cend(), that is the slots [0, size_) of each block.

\* std::equal(first1, last1, first2) over the slots of m1 from index i.
RECURSIVE equal(_, _, _, _)
equal(m1, i, last1, m2) ==
    IF i = last1 THEN TRUE
    ELSE IF m1[i + 1] # m2[i + 1] THEN FALSE
    ELSE equal(m1, i + 1, last1, m2)

\* std::lexicographical_compare(first1, last1, first2, last2).
RECURSIVE lexicographical_compare(_, _, _, _, _, _)
lexicographical_compare(m1, i, last1, m2, j, last2) ==
    IF i # last1 /\ j # last2
    THEN IF m1[i + 1] < m2[j + 1] THEN TRUE
         ELSE IF m2[j + 1] < m1[i + 1] THEN FALSE
         ELSE lexicographical_compare(m1, i + 1, last1, m2, j + 1, last2)
    ELSE i = last1 /\ j # last2

\* bool operator==(const SimpleVector& lhs, const SimpleVector& rhs)
operator_eq(S, lhs, rhs) ==
    IF S.vec[lhs].size_ # S.vec[rhs].size_ THEN FALSE
    ELSE equal(Mem(S.heap, S.vec[lhs].items_), 0, S.vec[lhs].size_,
               Mem(S.heap, S.vec[rhs].items_))

\* bool operator!=
operator_ne(S, lhs, rhs) == ~operator_eq(S, lhs, rhs)

\* operator< that orders a shorter array before a longer one whatever they hold.
operator_lt_shortlex(S, lhs, rhs) ==
    IF S.vec[lhs].size_ # S.vec[rhs].size_ THEN S.vec[lhs].size_ < S.vec[rhs].size_
    ELSE lexicographical_compare(Mem(S.heap, S.vec[lhs].items_), 0, S.vec[lhs].size_,
                                 Mem(S.heap, S.vec[rhs].items_), 0, S.vec[rhs].size_)

\* bool operator<
operator_lt(S, lhs, rhs) ==
    lexicographical_compare(Mem(S.heap, S.vec[lhs].items_), 0, S.vec[lhs].size_,
                            Mem(S.heap, S.vec[rhs].items_), 0, S.vec[rhs].size_)

\* bool operator<=
operator_le(S, lhs, rhs) == ~operator_lt(S, rhs, lhs)

\* bool operator>
operator_gt(S, lhs, rhs) == operator_lt(S, rhs, lhs)

\* bool operator>=
operator_ge(S, lhs, rhs) == ~operator_lt(S, lhs, rhs)

\* The six results of comparing lhs with rhs.
Compared(S, lhs, rhs) ==
    [eq |-> operator_eq(S, lhs, rhs), ne |-> operator_ne(S, lhs, rhs),
     lt |-> operator_lt(S, lhs, rhs), le |-> operator_le(S, lhs, rhs),
     gt |-> operator_gt(S, lhs, rhs), ge |-> operator_ge(S, lhs, rhs)]

----------------------------------------------------------------------------
\* ArrayPtr objects.  raw_ptr_ is Null or the address of a block; a block
\* deleted twice, or deleted through a pointer to a block no longer
\* allocated, is undefined behaviour.

DeadPtr == [alive |-> FALSE, raw_ptr_ |-> Null]

\* Outcome of a call on an ArrayPtr: the new state, the returned pointer (if
\* any) and whether undefined behaviour was executed.
PtrRes(S, ret, undef) == [arr |-> S.arr, heap |-> S.heap, ret |-> ret, ub |-> undef]

\* new Type[size]: a fresh block whose slots are default-initialised, that is
\* hold the indeterminate values init.
new_array(h, init) ==
    LET m == make_unique(h, Len(init))
    IN [heap |-> SetMem(m.heap, m.ptr, init), ptr |-> m.ptr]

\* delete[] raw_ptr
delete_array(S, raw_ptr) ==
    IF raw_ptr = Null THEN PtrRes(S, Null, FALSE)
    ELSE IF S.heap[raw_ptr].live
         THEN PtrRes([S EXCEPT !.heap = Delete(S.heap, raw_ptr)], Null, FALSE)
    ELSE PtrRes(S, Null, TRUE)

\* ArrayPtr() = default
ArrayPtrDefaultCtor(S, p) ==
    PtrRes([S EXCEPT !.arr[p] = [alive |-> TRUE, raw_ptr_ |-> Null]], Null, FALSE)

\* explicit ArrayPtr(size_t size)
ArrayPtrCtor(S, p, size, init) ==
    IF size = 0
    THEN PtrRes([S EXCEPT !.arr[p] = [alive |-> TRUE, raw_ptr_ |-> Null]], Null, FALSE)
    ELSE LET m == new_array(S.heap, init)
         IN PtrRes([arr |-> [S.arr EXCEPT ![p] = [alive |-> TRUE, raw_ptr_ |-> m.ptr]],
                    heap |-> m.heap], Null, FALSE)

\* Move construction that leaves the source holding its pointer.
ArrayPtrMoveCtorShares(S, p, other) ==
    PtrRes([S EXCEPT !.arr[p] = [alive |-> TRUE, raw_ptr_ |-> S.arr[other].raw_ptr_]],
           Null, FALSE)

\* ArrayPtr(ArrayPtr&& other) noexcept
ArrayPtrMoveCtor(S, p, other) ==
    PtrRes([S EXCEPT !.arr[p] = [alive |-> TRUE, raw_ptr_ |-> S.arr[other].raw_ptr_],
                     !.arr[other].raw_ptr_ = Null], Null, FALSE)

\* ArrayPtr& operator=(ArrayPtr&& other) noexcept
ArrayPtrMoveAssign(S, p, other) ==
    IF p # other
    THEN LET d == delete_array(S, S.arr[p].raw_ptr_)
         IN PtrRes([arr |-> [d.arr EXCEPT ![p].raw_ptr_ = S.arr[other].raw_ptr_,
                                          ![other].raw_ptr_ = Null],
                    heap |-> d.heap], Null, d.ub)
    ELSE PtrRes(S, Null, FALSE)

\* ~ArrayPtr()
ArrayPtrDtor(S, p) ==
    LET d == delete_array(S, S.arr[p].raw_ptr_)
    IN PtrRes([arr |-> [d.arr EXCEPT ![p] = DeadPtr], heap |-> d.heap], Null, d.ub)

\* Type* Release() noexcept
Release(S, p) ==
    LET old_ptr == S.arr[p].raw_ptr_
    IN PtrRes([S EXCEPT !.arr[p].raw_ptr_ = Null], old_ptr, FALSE)

\* void swap(ArrayPtr& other) noexcept
ArrayPtrSwap(S, p, other) ==
    PtrRes([S EXCEPT !.arr[p].raw_ptr_ = S.arr[other].raw_ptr_,
                     !.arr[other].raw_ptr_ = S.arr[p].raw_ptr_], Null, FALSE)

----------------------------------------------------------------------------
\* The program: calls on the two objects in any order.  A step that executed
\* undefined behaviour is the last step of a run (ub): nothing is known of
\* the program after it.

NoItem == [kind |-> "val", x |-> DefaultValue, i |-> 0]

\* Addresses carry no meaning beyond equality: a state is stored with the
\* block of a at address 1 and the block of b at address 2.
Home == [v \in Vectors |-> IF v = "a" THEN 1 ELSE 2]
Owned(S) == {S.vec[v].items_ : v \in Vectors} \ {Null}
Renamed(S) ==
    LET pa == S.vec["a"].items_
        pb == S.vec["b"].items_
    IN IF (pa # Null /\ pa = pb) \/ \E p \in BlockIds : S.heap[p].live /\ p \notin Owned(S) THEN S
       ELSE [vec |-> [v \in Vectors |->
                        IF S.vec[v].items_ = Null THEN S.vec[v]
                        ELSE [S.vec[v] EXCEPT !.items_ = Home[v]]],
             heap |-> [p \in BlockIds |->
                         IF p = Home["a"] /\ pa # Null THEN S.heap[pa]
                         ELSE IF p = Home["b"] /\ pb # Null THEN S.heap[pb]
                         ELSE FreeBlk]]

Call(r) ==
    \E q \in {r} :
       /\ HeapUse(q.heap) <= MaxHeap
       /\ \E t \in {Renamed(q)} : vec' = t.vec /\ heap' = t.heap
       /\ ub' = q.ub
       /\ arr' = arr

Alive(v) == ~ub /\ vec[v].alive
Dead(v) == ~ub /\ ~vec[v].alive

Lists == UNION {[1..n -> Type] : n \in 0..MaxHeap}
Moves(relevant) == IF relevant THEN {"keep", "reset"} ELSE {"keep"}
Garbage(relevant) == IF relevant THEN Type ELSE {DefaultValue}
FailPoints(alloc, moves, stores) ==
    {f \in Fails : \/ f.at = "none"
                   \/ f.at = "alloc" /\ alloc
                   \/ f.at = "move" /\ f.k < moves
                   \/ f.at = "store" /\ f.k < stores}

CallDefaultCtor(v) ==
    /\ Dead(v)
    /\ Call(Done(DefaultCtor(Cur, v)))

CallReserveCtor(v) ==
    /\ Dead(v)
    /\ \E k \in 0..MaxHeap :
          Call(Done(ReserveCtor(Cur, v, k)))

CallSizeCtor(v) ==
    /\ Dead(v)
    /\ \E n \in 0..MaxHeap :
          Call(Done(SizeCtor(Cur, v, n)))

CallSizeValueCtor(v) ==
    /\ Dead(v)
    /\ \E n \in 0..MaxHeap, item \in ValArgs :
          Call(Done(SizeValueCtor(Cur, v, n, item.x)))

CallInitListCtor(v) ==
    /\ Dead(v)
    /\ \E init \in Lists :
          Call(Done(InitListCtor(Cur, v, init)))

CallCopyCtor(v, w) ==
    /\ Dead(v) /\ Alive(w)
    /\ Call(Done(CopyCtor(Cur, v, w)))

CallMoveCtor(v, w) ==
    /\ Dead(v) /\ Alive(w)
    /\ Call(Done(MoveCtor(Cur, v, w)))

CallDtor(v) ==
    /\ Alive(v)
    /\ Call(Done(Dtor(Cur, v)))

CallMoveAssign(v, w) ==
    /\ Alive(v) /\ Alive(w)
    /\ Call(Done(MoveAssign(Cur, v, w)))

CallCopyAssign(v, w) ==
    /\ Alive(v) /\ Alive(w)
    /\ Call(Done(CopyAssign(Cur, v, w)))

CallSwap(v, w) ==
    /\ Alive(v) /\ Alive(w)
    /\ Call(Done(swap(Cur, v, w)))

\* The comparisons take both arrays by const reference and change nothing.
CallCompare(v, w) ==
    /\ Alive(v) /\ Alive(w)
    /\ \E res \in {Compared(Cur, v, w)} :
          Call(Done(Cur))

CallClear(v) ==
    /\ Alive(v)
    /\ Call(Done(Clear(Cur, v)))

CallPopBack(v) ==
    /\ Alive(v)
    /\ Call(Done(PopBack(Cur, v)))

CallAt(v) ==
    /\ Alive(v)
    /\ \E index \in 0..MaxHeap :
          Call(At(Cur, v, index))

\* The inputs of the calls that can fail, for a state S.
Args(S, v, ovl) ==
    ValArgs \cup (IF ovl = "copy" THEN SelfArgs(S.vec[v].size_) ELSE {})
Positions(S, v) == (-1)..(S.vec[v].size_ + 1)
Grows(S, v) == S.vec[v].size_ = S.vec[v].capacity_
ReserveFails(S, v, new_capacity) ==
    FailPoints(new_capacity > S.vec[v].capacity_, S.vec[v].size_, 0)
PushBackFails(S, v) ==
    FailPoints(Grows(S, v), IF Grows(S, v) THEN S.vec[v].size_ ELSE 0, 1)
InsertFails(S, v, pos) ==
    FailPoints(Grows(S, v),
               IF Grows(S, v) THEN S.vec[v].size_ ELSE S.vec[v].size_ - pos, 1)
ResizeFails(S, v, new_size) ==
    FailPoints(new_size > S.vec[v].capacity_,
               IF new_size > S.vec[v].capacity_ THEN S.vec[v].size_ ELSE 0,
               new_size - S.vec[v].size_)
PastEnd(S, v) == S.vec[v].size_ >= AllocLen(S.heap, S.vec[v].items_)

\* The choices that can show in the outcome of a call: what a move leaves
\* behind (when a moved-from slot survives) and what a step with undefined
\* behaviour finds (when there is one).
ReserveMoves(fail) == Moves(fail.at = "move" /\ fail.k > 0)
PushBackMoves(ovl, fail) == Moves(ovl = "move" /\ fail.at = "move" /\ fail.k > 0)
PushBackGarbage(S, v, item) ==
    Garbage(IF Grows(S, v) THEN item.kind = "self" ELSE PastEnd(S, v))
InsertMoves(S, v, pos, ovl, item, fail) ==
    Moves(IF Grows(S, v) THEN ovl = "move" /\ fail.at # "none"
          ELSE pos < S.vec[v].size_ /\ (fail.at # "none" \/ item.kind = "self"))
InsertGarbage(S, v) == Garbage(~Grows(S, v) /\ PastEnd(S, v))
EraseMoves(S, v, pos) == Moves(pos >= 0 /\ pos < S.vec[v].size_ - 1)
ResizeGarbage(S, v, new_size) ==
    Garbage(new_size <= S.vec[v].capacity_
               /\ new_size > AllocLen(S.heap, S.vec[v].items_))

CallReserve(v) ==
    /\ Alive(v)
    /\ \E new_capacity \in 0..MaxHeap :
       \E fail \in ReserveFails(Cur, v, new_capacity) :
       \E mv \in ReserveMoves(fail) :
          Call(Reserve(Cur, v, new_capacity, fail, mv))

CallPushBack(v) ==
    /\ Alive(v)
    /\ \E ovl \in {"copy", "move"} :
       \E item \in Args(Cur, v, ovl) :
       \E fail \in PushBackFails(Cur, v) :
       \E mv \in PushBackMoves(ovl, fail) :
       \E g \in PushBackGarbage(Cur, v, item) :
          Call(PushBack(Cur, v, item, ovl, fail, mv, g))

CallInsert(v) ==
    /\ Alive(v)
    /\ \E pos \in Positions(Cur, v) :
       \E ovl \in {"copy", "move"} :
       \E item \in Args(Cur, v, ovl) :
       \E fail \in InsertFails(Cur, v, pos) :
       \E mv \in InsertMoves(Cur, v, pos, ovl, item, fail) :
       \E g \in InsertGarbage(Cur, v) :
          Call(Insert(Cur, v, pos, item, ovl, fail, mv, g))

CallErase(v) ==
    /\ Alive(v)
    /\ \E pos \in Positions(Cur, v) :
       \E mv \in EraseMoves(Cur, v, pos) :
          Call(Erase(Cur, v, pos, mv))

CallResize(v) ==
    /\ Alive(v)
    /\ \E new_size \in 0..MaxHeap :
       \E fail \in ResizeFails(Cur, v, new_size) :
       \E mv \in ReserveMoves(fail) :
       \E g \in ResizeGarbage(Cur, v, new_size) :
          Call(Resize(Cur, v, new_size, fail, mv, g))

Init ==
    /\ vec = [v \in Vectors |-> DeadVec]
    /\ heap = [p \in BlockIds |-> FreeBlk]
    /\ ub = FALSE
    /\ arr = [p \in ArrayPtrs |-> DeadPtr]

Next ==
    \E v \in Vectors :
       \/ CallDefaultCtor(v)
       \/ CallReserveCtor(v)
       \/ CallSizeCtor(v)
       \/ CallSizeValueCtor(v)
       \/ CallInitListCtor(v)
       \/ CallDtor(v)
       \/ CallClear(v)
       \/ CallPopBack(v)
       \/ CallAt(v)
       \/ CallReserve(v)
       \/ CallPushBack(v)
       \/ CallInsert(v)
       \/ CallErase(v)
       \/ CallResize(v)
       \/ \E w \in Vectors :
             \/ CallCopyCtor(v, w)
             \/ CallMoveCtor(v, w)
             \/ CallMoveAssign(v, w)
             \/ CallCopyAssign(v, w)
             \/ CallSwap(v, w)
             \/ CallCompare(v, w)

Spec == Init /\ [][Next]_vars

----------------------------------------------------------------------------
\* The ArrayPtr program: creation, moves, Release, swap and destruction of
\* the two ArrayPtr objects in any order.

CurPtr == [arr |-> arr, heap |-> heap]

CallPtr(r) ==
    \E q \in {r} :
       /\ HeapUse(q.heap) <= MaxHeap
       /\ arr' = q.arr /\ heap' = q.heap /\ ub' = q.ub
       /\ vec' = vec

AlivePtr(p) == ~ub /\ arr[p].alive
DeadPtrObj(p) == ~ub /\ ~arr[p].alive

\* The values new Type[size] can leave in its slots.
Indeterminate(size) == [1..size -> Type]

CallArrayPtrDefaultCtor(p) ==
    /\ DeadPtrObj(p)
    /\ CallPtr(ArrayPtrDefaultCtor(CurPtr, p))

CallArrayPtrCtor(p) ==
    /\ DeadPtrObj(p)
    /\ \E size \in 0..MaxHeap : \E init \in Indeterminate(size) :
          /\ size > 0 => \E i \in BlockIds : ~heap[i].live
          /\ CallPtr(ArrayPtrCtor(CurPtr, p, size, init))

CallArrayPtrMoveCtor(p, other) ==
    /\ DeadPtrObj(p) /\ AlivePtr(other)
    /\ CallPtr(ArrayPtrMoveCtor(CurPtr, p, other))

CallArrayPtrMoveAssign(p, other) ==
    /\ AlivePtr(p) /\ AlivePtr(other)
    /\ CallPtr(ArrayPtrMoveAssign(CurPtr, p, other))

CallArrayPtrDtor(p) ==
    /\ AlivePtr(p)
    /\ CallPtr(ArrayPtrDtor(CurPtr, p))

CallRelease(p) ==
    /\ AlivePtr(p)
    /\ CallPtr(Release(CurPtr, p))

CallArrayPtrSwap(p, other) ==
    /\ AlivePtr(p) /\ AlivePtr(other)
    /\ CallPtr(ArrayPtrSwap(CurPtr, p, other))

NextArrayPtr ==
    \E p \in ArrayPtrs :
       \/ CallArrayPtrDefaultCtor(p)
       \/ CallArrayPtrCtor(p)
       \/ CallArrayPtrDtor(p)
       \/ CallRelease(p)
       \/ \E other \in ArrayPtrs :
             \/ CallArrayPtrMoveCtor(p, other)
             \/ CallArrayPtrMoveAssign(p, other)
             \/ CallArrayPtrSwap(p, other)

SpecArrayPtr == Init /\ [][NextArrayPtr]_vars

----------------------------------------------------------------------------
\* Properties.  A property of an operation is stated for every reachable
\* state in which the operation can be called and for every input of the call:
\* the outcome r of the operation is compared with the state S it started in.

Lives == {v \in Vectors : vec[v].alive}
Both == {"keep", "reset"}

SizeOf(S, v) == S.vec[v].size_
CapacityOf(S, v) == S.vec[v].capacity_

\* v has the same size, capacity and elements in T as in S.
SameContents(S, T, v) ==
    /\ SizeOf(T, v) = SizeOf(S, v)
    /\ CapacityOf(T, v) = CapacityOf(S, v)
    /\ Elems(T, v) = Elems(S, v)

\* The whole state of T is that of S.
SameState(S, T) == T.vec = S.vec /\ T.heap = S.heap

\* C1: in every reachable state every array satisfies 0 <= size <= capacity.
C1_SizeWithinCapacity ==
    \A v \in Vectors : 0 <= vec[v].size_ /\ vec[v].size_ <= vec[v].capacity_

C1_Witness ==
    /\ vec["a"].alive /\ vec["a"].size_ = vec["a"].capacity_ /\ vec["a"].size_ >= 2
    /\ vec["b"].alive /\ vec["b"].size_ = 0 /\ vec["b"].capacity_ > 0

\* C2: in every reachable state the capacity an array reports is the number of
\* slots allocated in its buffer, so that the slots [size, capacity) that
\* PushBack, Insert and Resize write without reallocating are allocated.
C2_CapacityIsAllocated ==
    ~ub => \A v \in Lives :
              /\ vec[v].capacity_ = AllocLen(heap, vec[v].items_)
              /\ \A i \in vec[v].size_..(vec[v].capacity_ - 1) :
                    i < AllocLen(heap, vec[v].items_)

\* C3: PushBack(value) with size s and capacity c makes the capacity 2c (1 for
\* c = 0) when s = c and leaves it otherwise, makes the size s + 1, puts value
\* at index s and keeps the elements at [0, s).
C3_PushBack ==
    ~ub => \A v \in Lives : \A ovl \in {"copy", "move"} : \A item \in Args(Cur, v, ovl) :
           \A g \in Type :
              LET s == vec[v].size_
                  c == vec[v].capacity_
                  r == PushBack(Cur, v, item, ovl, NoFail, "keep", g)
              IN /\ r.thrown = "none"
                 /\ CapacityOf(r, v) = (IF s = c THEN (IF c > 0 THEN 2 * c ELSE 1) ELSE c)
                 /\ SizeOf(r, v) = s + 1
                 /\ Elems(r, v) = Append(Elems(Cur, v), ArgValue(Cur, v, item))

\* The sequence old with x inserted before index i (0-based).
InsertedAt(old, i, x) == SubSeq(old, 1, i) \o <<x>> \o SubSeq(old, i + 1, Len(old))
\* The sequence old without its element at index i (0-based).
RemovedAt(old, i) == SubSeq(old, 1, i) \o SubSeq(old, i + 2, Len(old))

\* C4: Insert(pos, value) with index in [0, size] yields old[0..index), value,
\* old[index..size), grows the size by 1, doubles the capacity (1 for 0) only
\* when size = capacity, returns index, and for index = size yields the size,
\* capacity and elements PushBack(value) yields.
C4_Insert ==
    ~ub => \A v \in Lives : \A ovl \in {"copy", "move"} : \A item \in Args(Cur, v, ovl) :
           \A index \in 0..vec[v].size_ : \A mv \in Both : \A g \in Type :
              LET s == vec[v].size_
                  c == vec[v].capacity_
                  r == Insert(Cur, v, index, item, ovl, NoFail, mv, g)
                  p == PushBack(Cur, v, item, ovl, NoFail, mv, g)
              IN /\ r.thrown = "none"
                 /\ Elems(r, v) = InsertedAt(Elems(Cur, v), index, ArgValue(Cur, v, item))
                 /\ SizeOf(r, v) = s + 1
                 /\ CapacityOf(r, v) = (IF s = c THEN (IF c > 0 THEN 2 * c ELSE 1) ELSE c)
                 /\ r.ret = index
                 /\ index = s => SameContents(p, r, v)

\* C5: Erase(pos) with index in [0, size) yields old[0..index), old[index+1..size),
\* shrinks the size by 1, keeps the capacity, returns index, and for
\* index = size - 1 yields the size and elements PopBack() yields.
C5_Erase ==
    ~ub => \A v \in Lives : \A index \in 0..(vec[v].size_ - 1) : \A mv \in Both :
              LET r == Erase(Cur, v, index, mv)
                  p == PopBack(Cur, v)
              IN /\ r.thrown = "none"
                 /\ Elems(r, v) = RemovedAt(Elems(Cur, v), index)
                 /\ SizeOf(r, v) = vec[v].size_ - 1
                 /\ CapacityOf(r, v) = vec[v].capacity_
                 /\ r.ret = index
                 /\ index = vec[v].size_ - 1 =>
                       SizeOf(r, v) = SizeOf(p, v) /\ Elems(r, v) = Elems(p, v)

C5_Witness ==
    ~ub /\ \E v \in Lives :
              /\ vec[v].size_ >= 2 /\ vec[v].size_ < vec[v].capacity_
              /\ Elems(Cur, v)[1] # Elems(Cur, v)[2]
              /\ LET r == Erase(Cur, v, 0, "reset")
                 IN r.thrown = "none" /\ SizeOf(r, v) = vec[v].size_ - 1
                       /\ Elems(r, v)[1] = Elems(Cur, v)[2]

\* Positions and indices outside the valid range.
Outside(lo, hi) == ((lo - 2)..(lo - 1)) \cup ((hi + 1)..(hi + 2))

\* C6: At(index) with index >= size, Insert at a position outside
\* [begin, end] and Erase at a position outside [begin, end) signal the
\* out-of-range failure and leave the array as it was, for every size.
C6_OutOfRange ==
    ~ub => \A v \in Lives :
              LET s == vec[v].size_
              IN /\ \A index \in s..(s + 2) :
                       LET r == At(Cur, v, index)
                       IN r.thrown = "out_of_range" /\ SameState(Cur, r)
                 /\ \A pos \in Outside(0, s) : \A ovl \in {"copy", "move"} :
                    \A item \in Args(Cur, v, ovl) :
                       LET r == Insert(Cur, v, pos, item, ovl, NoFail, "keep", DefaultValue)
                       IN r.thrown = "out_of_range" /\ SameState(Cur, r)
                 /\ \A pos \in Outside(0, s - 1) :
                       LET r == Erase(Cur, v, pos, "keep")
                       IN r.thrown = "out_of_range" /\ SameState(Cur, r)

C6_Witness ==
    ~ub /\ \E v, w \in Lives :
              /\ vec[v].size_ = 0 /\ vec[v].items_ = Null
              /\ Erase(Cur, v, 0, "keep").thrown = "out_of_range"
              /\ At(Cur, v, 0).thrown = "out_of_range"
              /\ vec[w].size_ >= 2
              /\ Erase(Cur, w, vec[w].size_, "keep").thrown = "out_of_range"
              /\ Insert(Cur, w, vec[w].size_ + 1, NoItem, "copy", NoFail, "keep",
                        DefaultValue).thrown = "out_of_range"

\* v still owns the buffer it owned in S, with the size, the capacity and the
\* elements it had in S.
Kept(S, T, v) ==
    /\ T.vec[v] = S.vec[v]
    /\ S.vec[v].items_ # Null => T.heap[S.vec[v].items_].live
    /\ Elems(T, v) = Elems(S, v)

Failing(fs) == fs \ {NoFail}

\* C7: when the allocation of the new buffer, or the transfer of an element
\* into it, fails during Reserve, PushBack, Insert or Resize, the array keeps
\* its size, its capacity, its buffer and the values at [0, size).
C7_FailureKeepsState ==
    ~ub => \A v \in Lives : \A mv \in Both :
              /\ \A n \in (vec[v].capacity_ + 1)..MaxHeap :
                 \A fail \in Failing(ReserveFails(Cur, v, n)) :
                    LET r == Reserve(Cur, v, n, fail, mv)
                    IN r.thrown # "none" /\ Kept(Cur, r, v)
              /\ Grows(Cur, v) =>
                    \A ovl \in {"copy", "move"} : \A item \in ValArgs :
                       /\ \A fail \in Failing(PushBackFails(Cur, v)) :
                             LET r == PushBack(Cur, v, item, ovl, fail, mv, DefaultValue)
                             IN r.thrown # "none" /\ Kept(Cur, r, v)
                       /\ \A index \in 0..vec[v].size_ :
                          \A fail \in Failing(InsertFails(Cur, v, index)) :
                             LET r == Insert(Cur, v, index, item, ovl, fail, mv, DefaultValue)
                             IN r.thrown # "none" /\ Kept(Cur, r, v)
              /\ \A n \in (vec[v].capacity_ + 1)..MaxHeap :
                 \A fail \in Failing(ResizeFails(Cur, v, n)) :
                    LET r == Resize(Cur, v, n, fail, mv, DefaultValue)
                    IN r.thrown # "none" /\ Kept(Cur, r, v)

\* The destination v holds what the source w held in S, and w is empty.
MovedInto(S, T, v, w) ==
    /\ SizeOf(T, w) = 0 /\ CapacityOf(T, w) = 0
    /\ SizeOf(T, v) = SizeOf(S, w)
    /\ CapacityOf(T, v) = CapacityOf(S, w)
    /\ Elems(T, v) = Elems(S, w)

\* C8: move construction and move assignment from another array leave the
\* source with size 0 and capacity 0 and the destination with the source's
\* size, capacity and elements; move assignment to itself changes nothing.
C8_Move ==
    ~ub => /\ \A v \in Vectors \ Lives : \A w \in Lives :
                 MovedInto(Cur, MoveCtor(Cur, v, w), v, w)
           /\ \A v \in Lives : \A w \in Lives :
                 IF v = w THEN SameState(Cur, MoveAssign(Cur, v, w))
                 ELSE MovedInto(Cur, MoveAssign(Cur, v, w), v, w)

C8_Witness ==
    ~ub /\ \E v \in Lives : \E w \in Lives \ {v} :
              /\ vec[v].size_ > 0 /\ vec[w].size_ > 0
              /\ vec[w].size_ < vec[w].capacity_
              /\ Elems(Cur, v) # Elems(Cur, w)
              /\ LET r == MoveAssign(Cur, v, w)
                 IN SizeOf(r, w) = 0 /\ Elems(r, v) = Elems(Cur, w)
                       /\ CapacityOf(r, v) = vec[w].capacity_

\* No two arrays own the same buffer.
NoSharedBuffer(S) ==
    \A v, w \in Vectors :
       v # w /\ S.vec[v].items_ # Null => S.vec[v].items_ # S.vec[w].items_

\* No call made on v alone changes the size, capacity or elements of w.
Isolated(v, w) ==
    LET S == Cur
        Same(r) == SameContents(S, r, w) /\ r.vec[w].items_ = S.vec[w].items_
    IN /\ Same(Clear(S, v)) /\ Same(PopBack(S, v)) /\ Same(Dtor(S, v))
       /\ \A n \in 0..MaxHeap :
             /\ \A fail \in ReserveFails(S, v, n) : \A mv \in ReserveMoves(fail) :
                   Same(Reserve(S, v, n, fail, mv))
             /\ \A fail \in ResizeFails(S, v, n) : \A mv \in ReserveMoves(fail) :
                \A g \in ResizeGarbage(S, v, n) :
                   Same(Resize(S, v, n, fail, mv, g))
       /\ \A pos \in Positions(S, v) :
             /\ \A mv \in EraseMoves(S, v, pos) : Same(Erase(S, v, pos, mv))
             /\ \A ovl \in {"copy", "move"} : \A item \in Args(S, v, ovl) :
                \A fail \in InsertFails(S, v, pos) :
                \A mv \in InsertMoves(S, v, pos, ovl, item, fail) :
                \A g \in InsertGarbage(S, v) :
                   Same(Insert(S, v, pos, item, ovl, fail, mv, g))
       /\ \A ovl \in {"copy", "move"} : \A item \in Args(S, v, ovl) :
          \A fail \in PushBackFails(S, v) : \A mv \in PushBackMoves(ovl, fail) :
          \A g \in PushBackGarbage(S, v, item) :
             Same(PushBack(S, v, item, ovl, fail, mv, g))

C11_Resize ==
    ~ub => \A v \in Lives : \A n \in 0..MaxHeap : \A g \in Type :
              LET s == vec[v].size_
                  c == vec[v].capacity_
                  old == Elems(Cur, v)
                  r == Resize(Cur, v, n, NoFail, "keep", g)
              IN /\ r.thrown = "none"
                 /\ SizeOf(r, v) = n
                 /\ n > s => /\ SubSeq(Elems(r, v), 1, s) = old
                             /\ \A i \in (s + 1)..n : Elems(r, v)[i] = DefaultValue
                             /\ CapacityOf(r, v) = (IF n > c THEN n ELSE c)
                 /\ n < s => /\ Elems(r, v) = SubSeq(old, 1, n)
                             /\ CapacityOf(r, v) = c
                 /\ n = s => SameState(Cur, r)

\* C12: Reserve(newCap) keeps the size and the elements at [0, size) in their
\* order, makes the capacity newCap when newCap > capacity, and changes
\* nothing at all (no reallocation) when newCap <= capacity.
C12_Reserve ==
    ~ub => \A v \in Lives : \A newCap \in 0..(MaxHeap + 1) : \A mv \in Both :
              LET c == vec[v].capacity_
                  r == Reserve(Cur, v, newCap, NoFail, mv)
              IN /\ r.thrown = "none" /\ ~r.ub
                 /\ SizeOf(r, v) = vec[v].size_
                 /\ Elems(r, v) = Elems(Cur, v)
                 /\ CapacityOf(r, v) >= c
                 /\ newCap > c => /\ CapacityOf(r, v) = newCap
                                  /\ AllocLen(r.heap, r.vec[v].items_) = newCap
                 /\ newCap <= c => SameState(Cur, r)

C12_Witness ==
    ~ub /\ \E v \in Lives :
              /\ vec[v].size_ >= 2 /\ vec[v].capacity_ = vec[v].size_
              /\ Elems(Cur, v)[1] # Elems(Cur, v)[2]
              /\ LET r == Reserve(Cur, v, vec[v].capacity_ + 1, NoFail, "reset")
                     q == Reserve(Cur, v, vec[v].capacity_ - 1, NoFail, "reset")
                 IN /\ CapacityOf(r, v) = vec[v].capacity_ + 1
                    /\ r.vec[v].items_ # vec[v].items_
                    /\ Elems(r, v) = Elems(Cur, v)
                    /\ CapacityOf(q, v) = vec[v].capacity_

\* The state part of an outcome.
StateOf(r) == [vec |-> r.vec, heap |-> r.heap]

\* The outcomes of PushBack called with each of items in turn, no call failing.
RECURSIVE Pushes(_, _, _, _)
Pushes(S, v, items, ovl) ==
    IF items = << >> THEN << >>
    ELSE LET r == PushBack(S, v, Head(items), ovl, NoFail, "keep", DefaultValue)
         IN <<r>> \o Pushes(StateOf(r), v, Tail(items), ovl)

\* The arguments of n pushes into an empty array: values of the caller's and,
\* for the const Type& overload, references to the first element pushed.
PushItems(n, ovl) ==
    {q \in [1..n -> ValArgs \cup SelfArgs(1)] :
        \A j \in 1..n : q[j].kind = "self" => ovl = "copy" /\ j > 1}

\* The push is a defined call that left v with capacity c and the buffer p.
NoRealloc(r, v, c, p) ==
    /\ r.thrown = "none" /\ ~r.ub
    /\ CapacityOf(r, v) = c
    /\ r.vec[v].items_ = p

\* C13: Clear() on an array with capacity c sets the size to 0 and keeps the
\* capacity and the buffer; each of the next c PushBack calls stores into that
\* buffer and keeps the capacity at c, and the (c+1)-th push reallocates.
C13_ClearThenPush ==
    ~ub => \A v \in Lives : \A ovl \in {"copy", "move"} :
              LET c == vec[v].capacity_
                  p == vec[v].items_
                  cl == Clear(Cur, v)
              IN /\ SizeOf(cl, v) = 0 /\ CapacityOf(cl, v) = c
                 /\ cl.vec[v].items_ = p /\ cl.heap = heap
                 /\ \A items \in PushItems(c + 1, ovl) :
                       LET rs == Pushes(cl, v, items, ovl)
                       IN /\ \A k \in 1..c : NoRealloc(rs[k], v, c, p) /\ SizeOf(rs[k], v) = k
                          /\ rs[c + 1].thrown = "none"
                          /\ rs[c + 1].vec[v].items_ # p
                          /\ CapacityOf(rs[c + 1], v) > c

\* C14: construction with a capacity hint k yields size 0 and capacity k, and
\* each of the first k PushBack calls that follow stores into the buffer the
\* constructor allocated and leaves the capacity at k.
C14_CapacityHint ==
    ~ub => \A v \in Vectors \ Lives : \A k \in 0..MaxHeap : \A ovl \in {"copy", "move"} :
              LET S == ReserveCtor(Cur, v, k)
                  p == S.vec[v].items_
              IN /\ SizeOf(S, v) = 0 /\ CapacityOf(S, v) = k
                 /\ \A items \in PushItems(k, ovl) :
                       LET rs == Pushes(S, v, items, ovl)
                       IN \A j \in 1..k :
                             /\ NoRealloc(rs[j], v, k, p)
                             /\ SizeOf(rs[j], v) = j

C14_Witness ==
    ~ub /\ \E v \in Vectors \ Lives : \E w \in Lives :
              /\ vec[w].size_ > 0
              /\ LET S == ReserveCtor(Cur, v, 2)
                     rs == Pushes(S, v, <<[kind |-> "val", x |-> 1, i |-> 0],
                                          [kind |-> "self", x |-> DefaultValue, i |-> 0]>>,
                                  "copy")
                 IN /\ SizeOf(S, v) = 0 /\ CapacityOf(S, v) = 2
                    /\ S.vec[v].items_ # vec[w].items_
                    /\ Elems(rs[2], v) = <<1, 1>>
                    /\ CapacityOf(rs[2], v) = 2
                    /\ rs[2].vec[v].items_ = S.vec[v].items_

\* A precedes B in the strict lexicographic order: they agree on the first k
\* elements, and there A ends while B goes on, or A holds the smaller element.
LexLess(A, B) ==
    \E k \in 0..Len(A) :
       /\ k <= Len(B)
       /\ \A i \in 1..k : A[i] = B[i]
       /\ IF k = Len(A) THEN k < Len(B) ELSE k < Len(B) /\ A[k + 1] < B[k + 1]

C17_NoBufferAtCapacityZero ==
    ~ub => \A v \in Lives : vec[v].capacity_ = 0 => vec[v].items_ = Null

\* C18: PopBack() on an array of size 0 changes nothing; on an array of size
\* s > 0 it makes the size s - 1 and keeps the capacity, the buffer and the
\* elements at [0, s - 1).
C18_PopBack ==
    ~ub => \A v \in Lives :
              LET s == vec[v].size_
                  r == PopBack(Cur, v)
              IN /\ s = 0 => SameState(Cur, r) /\ SizeOf(r, v) = 0
                 /\ s > 0 => /\ SizeOf(r, v) = s - 1
                             /\ CapacityOf(r, v) = vec[v].capacity_
                             /\ r.vec[v].items_ = vec[v].items_
                             /\ r.heap = heap
                             /\ Elems(r, v) = SubSeq(Elems(Cur, v), 1, s - 1)
                 /\ SizeOf(r, v) >= 0
                 /\ \A w \in Vectors \ {v} : r.vec[w] = vec[w]

C18_Witness ==
    ~ub /\ \E v \in Lives : \E w \in Lives \ {v} :
              /\ vec[v].size_ = 0 /\ vec[v].capacity_ > 0
              /\ PopBack(Cur, v) = Cur
              /\ vec[w].size_ >= 2 /\ Elems(Cur, w)[vec[w].size_] # DefaultValue
              /\ SizeOf(PopBack(Cur, w), w) = vec[w].size_ - 1
              /\ Mem(PopBack(Cur, w).heap, vec[w].items_) = Mem(heap, vec[w].items_)

\* No block is owned by two ArrayPtr objects, and every block owned is allocated.
ExclusiveOwners(S) ==
    /\ \A p, q \in ArrayPtrs :
          p # q /\ S.arr[p].raw_ptr_ # Null => S.arr[p].raw_ptr_ # S.arr[q].raw_ptr_
    /\ \A p \in ArrayPtrs : S.arr[p].raw_ptr_ # Null => S.heap[S.arr[p].raw_ptr_].live

\* The call freed the block b (if any) with one delete[], and no other block.
FreedOnce(S, r, b) ==
    /\ ~r.ub
    /\ b # Null => ~r.heap[b].live
    /\ \A i \in BlockIds \ {b} : r.heap[i] = S.heap[i]

LivePtrs == {p \in ArrayPtrs : arr[p].alive}

\* C16: over every sequence of ArrayPtr creations, move constructions, move
\* assignments (to itself included, which keeps the target), Release, swap and
\* destructions, every allocated block has at most one owner, an object moved
\* from or released owns nothing, and a block owned by an object that is
\* destroyed or assigned to is freed once and never twice.
C16_ExclusiveOwnership ==
    /\ ~ub
    /\ ExclusiveOwners(CurPtr)
    /\ \A p \in LivePtrs :
          LET b == arr[p].raw_ptr_
              d == ArrayPtrDtor(CurPtr, p)
              rl == Release(CurPtr, p)
              self == ArrayPtrMoveAssign(CurPtr, p, p)
          IN /\ FreedOnce(CurPtr, d, b) /\ ExclusiveOwners(d)
             /\ rl.arr[p].raw_ptr_ = Null /\ rl.ret = b /\ rl.heap = heap /\ ~rl.ub
             /\ self.arr = arr /\ self.heap = heap /\ ~self.ub
             /\ \A q \in LivePtrs \ {p} :
                   LET m == ArrayPtrMoveAssign(CurPtr, p, q)
                       sw == ArrayPtrSwap(CurPtr, p, q)
                   IN /\ FreedOnce(CurPtr, m, b) /\ ExclusiveOwners(m)
                      /\ m.arr[p].raw_ptr_ = arr[q].raw_ptr_
                      /\ m.arr[q].raw_ptr_ = Null
                      /\ sw.arr[p].raw_ptr_ = arr[q].raw_ptr_
                      /\ sw.arr[q].raw_ptr_ = b
                      /\ sw.heap = heap /\ ~sw.ub
             /\ \A q \in ArrayPtrs \ LivePtrs :
                   LET m == ArrayPtrMoveCtor(CurPtr, q, p)
                   IN /\ m.arr[q].raw_ptr_ = b /\ m.arr[p].raw_ptr_ = Null
                      /\ m.heap = heap /\ ~m.ub /\ ExclusiveOwners(m)

C16_Witness ==
    ~ub /\ \E p \in LivePtrs : \E q \in LivePtrs \ {p} :
              /\ arr[p].raw_ptr_ # Null /\ arr[q].raw_ptr_ # Null
              /\ \E i \in BlockIds : heap[i].live /\ i \notin {arr[p].raw_ptr_, arr[q].raw_ptr_}
              /\ LET m == ArrayPtrMoveAssign(CurPtr, p, q)
                 IN /\ ~m.heap[arr[p].raw_ptr_].live
                    /\ m.heap[arr[q].raw_ptr_].live
                    /\ m.arr[p].raw_ptr_ = arr[q].raw_ptr_
                    /\ m.arr[q].raw_ptr_ = Null

====
